---------------------------- MODULE Spec2Model ----------------------------
(***************************************************************************)
(* Model of firmware-esp32/src/main.cpp: an ESP32 + HX711 scale.  loop()   *)
(* samples the load cell, filters (median + IIR), decides stability,       *)
(* applies an output deadband, emits one report line and then drains the   *)
(* inbound serial bytes through a line parser that dispatches the Tare and *)
(* Calibrate commands; calibration is persisted in NVS.                    *)
(*                                                                         *)
(* Numbers.  TLA+ has integers only.  A float that holds grams is a        *)
(* fixed-point integer counting 1/FRAC gram, every float operation         *)
(* rounding to the nearest unit.  g_calFactor, the quotient of two         *)
(* integers, is kept as the reduced fraction <<num, den>>.  Times are      *)
(* milliseconds as millis() returns them.                                  *)
(***************************************************************************)
EXTENDS Integers, Sequences, FiniteSets

\* ---------------------------------------------------------------- numbers

\* Fixed-point units per gram of a modelled float.
FRAC == 1000

Abs(x) == IF x < 0 THEN -x ELSE x

\* C integer division: the quotient truncated toward zero (b > 0).
TruncDiv(a, b) == IF a >= 0 THEN a \div b ELSE -((-a) \div b)

\* a / b rounded to the nearest integer, halves away from zero (b > 0).
RoundDiv(a, b) ==
    IF a >= 0 THEN (2 * a + b) \div (2 * b) ELSE -((2 * (-a) + b) \div (2 * b))

RECURSIVE Gcd(_, _)
Gcd(a, b) == IF b = 0 THEN a ELSE Gcd(b, a % b)

\* The float quotient n / d (d # 0) as a reduced fraction with den > 0.
Quot(n, d) ==
    LET g == Gcd(Abs(n), Abs(d))
        s == IF d < 0 THEN -1 ELSE 1
    IN  <<(s * n) \div g, (s * d) \div g>>

RECURSIVE SumSeq(_)
SumSeq(s) == IF s = <<>> THEN 0 ELSE Head(s) + SumSeq(Tail(s))

\* ----------------------------------------------------- tuning constants

\* MEDIAN_WINDOW (21 in main.cpp:37) and SD_WINDOW (25 in main.cpp:48),
\* scaled down, both odd as they are in the source: the windows fill, and
\* evict, within a few ticks.
MEDIAN_WINDOW == 3
SD_WINDOW == 7

\* IIR_ALPHA = 0.08f, in hundredths.
IIR_ALPHA_PCT == 8
\* STABLE_DELTA_G = 3.0f [g], STABLE_MS = 1500 [ms].
STABLE_DELTA_G == 3
STABLE_MS == 1500
\* SD_THRESH_G = 1.5f [g], in tenths of a gram.
SD_THRESH_DG == 15
\* DEAD_BAND_G = 0.20f [g], in hundredths of a gram.
DEAD_BAND_CG == 20
\* rb.size() >= 3: samples needed before the median + IIR path is used.
COLD_START_MIN == 3

\* --------------------------------------------------------- RingBufferRaw

\* RingBufferRaw(n) / RingBufferFloat(n): buf zeroed, idx = 0, count = 0.
NewRing(n) ==
    [buf |-> [i \in 0..(n - 1) |-> 0], N |-> n, idx |-> 0, count |-> 0]

\* add() with the wrap of idx left out.
RbAdd_NoWrap(r, v) ==
    [r EXCEPT !.buf[IF r.idx < r.N THEN r.idx ELSE r.N - 1] = v,
              !.idx = IF r.idx < r.N THEN r.idx + 1 ELSE r.idx,
              !.count = IF r.count < r.N THEN r.count + 1 ELSE r.count]

\* add(v): buf[idx] = v; idx = (idx + 1) % N; if (count < N) count++.
RbAdd(r, v) ==
    [r EXCEPT !.buf[r.idx] = v,
              !.idx = (r.idx + 1) % r.N,
              !.count = IF r.count < r.N THEN r.count + 1 ELSE r.count]

\* size().
RbSize(r) == r.count

\* std::sort(tmp, tmp + count): ascending, by insertion.
RECURSIVE Insert(_, _)
Insert(s, x) ==
    IF s = <<>> THEN <<x>>
    ELSE IF x <= Head(s) THEN <<x>> \o s
    ELSE <<Head(s)>> \o Insert(Tail(s), x)

RECURSIVE SortSeq(_)
SortSeq(s) == IF s = <<>> THEN <<>> ELSE Insert(SortSeq(Tail(s)), Head(s))

\* tmp[i] = buf[i] for i < count, as a sequence.
RbCopy(r) == [i \in 1..r.count |-> r.buf[i - 1]]

\* median() taking the element below the middle.
RbMedian_Low(r) ==
    IF r.count = 0 THEN 0
    ELSE SortSeq(RbCopy(r))[((r.count - 1) \div 2) + 1]

\* median(): 0 when empty, else tmp[count / 2] of the sorted copy.
RbMedian(r) ==
    IF r.count = 0 THEN 0
    ELSE SortSeq(RbCopy(r))[(r.count \div 2) + 1]

\* ---------------------------------------------------- calibration model

\* CMD_MAX_LEN: the longest command line kept.
CMD_MAX_LEN == 80
\* const int N = 20: raw samples averaged by Calibrate, delay(5) after each.
CAL_SAMPLES == 20
CAL_DELAY_MS == 5
\* setup(): delay(150) + delay(100) + delay(50) before loop() first runs.
SETUP_DELAY_MS == 150 + 100 + 50
\* loop(): delay(1000 / LOOP_HZ) with LOOP_HZ = 50.
LOOP_HZ == 50
LOOP_DELAY_MS == 1000 \div LOOP_HZ

\* rawToGrams(raw) under calibration <<factor, tare>>:
\* (float)(raw - tare) * factor.
Grams(raw, factor, tare) ==
    RoundDiv((raw - tare) * factor[1] * FRAC, factor[2])

\* Serial1.println(x, 8): x in fixed notation with 8 decimals, as
\* [neg, int, frac] where frac counts 1e-8.
RECURSIVE FracDigits(_, _, _, _)
FracDigits(rem, d, k, acc) ==
    IF k = 0 THEN [frac |-> acc, rem |-> rem]
    ELSE FracDigits((rem * 10) % d, d, k - 1, acc * 10 + ((rem * 10) \div d))

Fmt8(factor) ==
    LET a  == Abs(factor[1])
        d  == factor[2]
        fd == FracDigits(a % d, d, 8, 0)
        up == 2 * fd.rem >= d
        fr == IF up THEN fd.frac + 1 ELSE fd.frac
    IN  [neg  |-> factor[1] < 0,
         int  |-> (a \div d) + (IF fr = 100000000 THEN 1 ELSE 0),
         frac |-> IF fr = 100000000 THEN 0 ELSE fr]

\* snprintf("%.2f", g): hundredths of a gram, rounded to nearest.
Fmt2(g) == RoundDiv(g * 100, FRAC)

\* ------------------------------------------------------- Arduino String

Terminators == {"\r", "\n"}
IsSpace(c) == c \in {" ", "\t"}

RECURSIVE TrimLeft(_)
TrimLeft(s) ==
    IF s # <<>> /\ IsSpace(Head(s)) THEN TrimLeft(Tail(s)) ELSE s

RECURSIVE TrimRight(_)
TrimRight(s) ==
    IF s # <<>> /\ IsSpace(s[Len(s)])
    THEN TrimRight(SubSeq(s, 1, Len(s) - 1))
    ELSE s

\* String::trim(): leading and trailing whitespace removed.
Trim(s) == TrimRight(TrimLeft(s))

\* String::startsWith(p).
StartsWith(s, p) == Len(s) >= Len(p) /\ SubSeq(s, 1, Len(p)) = p

\* String::substring(from), from counted from 0.
Substring(s, from) ==
    IF from >= Len(s) THEN <<>> ELSE SubSeq(s, from + 1, Len(s))

DigitChars == <<"0", "1", "2", "3", "4", "5", "6", "7", "8", "9">>
IsDigit(c) == \E i \in 1..10 : DigitChars[i] = c
DigitVal(c) == (CHOOSE i \in 1..10 : DigitChars[i] = c) - 1

RECURSIVE DigitsValue(_, _)
DigitsValue(s, acc) ==
    IF s # <<>> /\ IsDigit(Head(s))
    THEN DigitsValue(Tail(s), 10 * acc + DigitVal(Head(s)))
    ELSE acc

\* String::toFloat(), i.e. atof(): leading whitespace, an optional sign, then
\* the longest run of digits; 0 when there is none.  (No line of the model
\* holds a decimal point or an exponent.)
ToFloat(s) ==
    LET t == TrimLeft(s)
        neg == t # <<>> /\ Head(t) = "-"
        u == IF t # <<>> /\ Head(t) \in {"-", "+"} THEN Tail(t) ELSE t
        v == DigitsValue(u, 0)
    IN  IF neg THEN -v ELSE v

\* ---------------------------------------------------------- Preferences

\* The NVS namespace is a function from the keys written so far to values.
EmptyNvs == [k \in {} |-> 0]

\* prefs.getFloat(key, def) / prefs.getInt(key, def).
NvsGet(store, key, def) == IF key \in DOMAIN store THEN store[key] ELSE def

\* prefs.putFloat(key, v) / prefs.putInt(key, v).
NvsPut(store, key, v) ==
    [k \in (DOMAIN store) \cup {key} |-> IF k = key THEN v ELSE store[k]]

KEY_CAL_FACTOR == "cal_f"
KEY_TARE_OFFSET == "tare"

\* ------------------------------------------------------- handleCommand

Line(tagname) == [tag |-> tagname]

\* The Tare branch storing the tare in RAM only.
TareCmd_NoPersist(store, factor, tare, script) ==
    [factor |-> factor, tare |-> script[1], store |-> store,
     tx |-> <<Line("ACK:T")>>, reads |-> 1, delay |-> 0]

\* The Tare branch taking the sample relative to the tare in effect.
TareCmd_Relative(store, factor, tare, script) ==
    [factor |-> factor, tare |-> script[1] - tare,
     store |-> NvsPut(store, KEY_TARE_OFFSET, script[1] - tare),
     tx |-> <<Line("ACK:T")>>, reads |-> 1, delay |-> 0]

\* line == "T" || line == "t": one raw sample becomes the tare, persisted.
TareCmd(store, factor, tare, script) ==
    [factor |-> factor, tare |-> script[1],
     store |-> NvsPut(store, KEY_TARE_OFFSET, script[1]),
     tx |-> <<Line("ACK:T")>>, reads |-> 1, delay |-> 0]

\* A rejected command falling back to the default factor.
Reject_Defaults(store, factor, tare, tagname, n) ==
    [factor |-> <<1, 1>>, tare |-> tare, store |-> store,
     tx |-> <<Line(tagname)>>, reads |-> n, delay |-> n * CAL_DELAY_MS]

\* What a command that changes nothing answers.
Reject(store, factor, tare, tagname, n) ==
    [factor |-> factor, tare |-> tare, store |-> store,
     tx |-> <<Line(tagname)>>, reads |-> n, delay |-> n * CAL_DELAY_MS]

\* The Calibrate branch dividing by the raw mean instead of the net mean.
CalibrateCmd_Gross(store, factor, tare, line, script) ==
    LET peso_ref == ToFloat(Trim(Substring(line, 2)))
        r_mean   == TruncDiv(SumSeq(SubSeq(script, 1, CAL_SAMPLES)), CAL_SAMPLES)
        r_net    == r_mean - tare
    IN  IF peso_ref <= 0 THEN Reject(store, factor, tare, "ERR:CAL:weight", 0)
        ELSE IF r_net = 0 \/ r_mean = 0
             THEN Reject(store, factor, tare, "ERR:CAL:zero", CAL_SAMPLES)
        ELSE [factor |-> Quot(peso_ref, r_mean), tare |-> tare,
              store |-> NvsPut(store, KEY_CAL_FACTOR, Quot(peso_ref, r_mean)),
              tx |-> <<[tag |-> "ACK:C", val |-> Fmt8(Quot(peso_ref, r_mean))]>>,
              reads |-> CAL_SAMPLES, delay |-> CAL_SAMPLES * CAL_DELAY_MS]

\* The Calibrate branch clearing the tare along with setting the factor.
CalibrateCmd_ZeroesTare(store, factor, tare, line, script) ==
    LET peso_ref == ToFloat(Trim(Substring(line, 2)))
        r_mean   == TruncDiv(SumSeq(SubSeq(script, 1, CAL_SAMPLES)), CAL_SAMPLES)
        r_net    == r_mean - tare
    IN  IF peso_ref <= 0 THEN Reject(store, factor, tare, "ERR:CAL:weight", 0)
        ELSE IF r_net = 0
             THEN Reject(store, factor, tare, "ERR:CAL:zero", CAL_SAMPLES)
        ELSE [factor |-> Quot(peso_ref, r_net), tare |-> 0,
              store |-> NvsPut(NvsPut(store, KEY_CAL_FACTOR,
                                      Quot(peso_ref, r_net)),
                               KEY_TARE_OFFSET, 0),
              tx |-> <<[tag |-> "ACK:C", val |-> Fmt8(Quot(peso_ref, r_net))]>>,
              reads |-> CAL_SAMPLES, delay |-> CAL_SAMPLES * CAL_DELAY_MS]

\* line.startsWith("C:") || line.startsWith("c:"): the weight is parsed; 20
\* raw samples are summed and averaged (integer division); the factor is
\* weight / net mean unless the net mean is 0.
CalibrateCmd(store, factor, tare, line, script) ==
    LET peso_ref == ToFloat(Trim(Substring(line, 2)))
        r_mean   == TruncDiv(SumSeq(SubSeq(script, 1, CAL_SAMPLES)), CAL_SAMPLES)
        r_net    == r_mean - tare
    IN  IF peso_ref <= 0 THEN Reject(store, factor, tare, "ERR:CAL:weight", 0)
        ELSE IF r_net = 0
             THEN Reject(store, factor, tare, "ERR:CAL:zero", CAL_SAMPLES)
        ELSE [factor |-> Quot(peso_ref, r_net), tare |-> tare,
              store |-> NvsPut(store, KEY_CAL_FACTOR, Quot(peso_ref, r_net)),
              tx |-> <<[tag |-> "ACK:C", val |-> Fmt8(Quot(peso_ref, r_net))]>>,
              reads |-> CAL_SAMPLES, delay |-> CAL_SAMPLES * CAL_DELAY_MS]

\* handleCommand comparing with the upper-case spellings only.
HandleCommand_CaseSensitive(store, factor, tare, line, script) ==
    IF Len(line) = 0
    THEN [factor |-> factor, tare |-> tare, store |-> store, tx |-> <<>>,
          reads |-> 0, delay |-> 0]
    ELSE IF line = <<"T">>
    THEN TareCmd(store, factor, tare, script)
    ELSE IF StartsWith(line, <<"C", ":">>)
    THEN CalibrateCmd(store, factor, tare, line, script)
    ELSE Reject(store, factor, tare, "ERR:UNKNOWN_CMD", 0)

\* handleCommand(line) in calibration state <<store, factor, tare>>, the
\* sensor returning script[1], script[2], ... to its reads: the new
\* calibration state, the lines written to Serial1, the number of reads and
\* the time spent in delay().
HandleCommand(store, factor, tare, line, script) ==
    IF Len(line) = 0
    THEN [factor |-> factor, tare |-> tare, store |-> store, tx |-> <<>>,
          reads |-> 0, delay |-> 0]
    ELSE IF line = <<"T">> \/ line = <<"t">>
    THEN TareCmd(store, factor, tare, script)
    ELSE IF StartsWith(line, <<"C", ":">>) \/ StartsWith(line, <<"c", ":">>)
    THEN CalibrateCmd(store, factor, tare, line, script)
    ELSE Reject(store, factor, tare, "ERR:UNKNOWN_CMD", 0)

\* -------------------------------------------------------------- variables

VARIABLES
    g_calFactor,            \* <<num, den>>: grams per raw unit
    g_tareOffset,           \* raw units
    prefs,                  \* NVS namespace "bascula": key -> value
    rb,                     \* loop(): static RingBufferRaw rb(MEDIAN_WINDOW)
    rb_g,                   \* loop(): static RingBufferFloat rb_g(SD_WINDOW)
    first,                  \* loop(): static bool first
    iir_value,              \* loop(): static float iir_value
    lastStableRefMs,        \* loop(): static uint32_t lastStableRefMs
    stable,                 \* loop(): static bool stable
    last_grams_for_delta,   \* loop(): static float last_grams_for_delta
    last_output,            \* loop(): static float last_output
    cmdLine,                \* String cmdLine, a sequence of characters
    cmdOverflow,            \* bool cmdOverflow
    pc,                     \* position in loop(): "tick" (top) or "drain" (step 7)
    clock,                  \* millis()
    host,                   \* bytes of the host's current line not yet read
    tx,                     \* lines written to Serial1 by the last step
    ev,                     \* what the last step did (history record)
    ticks,                  \* executions of loop() since boot
    hist,                   \* history since boot: stability condition, line bytes
    added                   \* samples given to the ring under test, in order

vars ==
    <<g_calFactor, g_tareOffset, prefs, rb, rb_g, first, iir_value,
      lastStableRefMs, stable, last_grams_for_delta, last_output, cmdLine,
      cmdOverflow, pc, clock, host, tx, ev, ticks, hist, added>>

calVars == <<g_calFactor, g_tareOffset, prefs>>
pipeVars ==
    <<rb, rb_g, first, iir_value, lastStableRefMs, stable,
      last_grams_for_delta, last_output>>
cmdVars == <<cmdLine, cmdOverflow>>

\* History kept for the properties: when loop() first ran and when the
\* stability condition was last violated (-1: never), and the bytes received
\* since the last terminator.  Where keep is set, also every byte received
\* since boot, what the terminators led to (the line given to handleCommand
\* or the mark ERR:CMDLEN, with the tick it happened on), and the tick on
\* which the current line began (-1: no byte yet).
NoHist ==
    [firstTick |-> -1, lastViolation |-> -1, line |-> <<>>,
     keep |-> FALSE, bytes |-> <<>>, log |-> <<>>, lineTick |-> -1]

CmdLenMark == <<"ERR:CMDLEN">>

\* setup() has run on the NVS contents store and loop() has not: the globals
\* and the statics of loop() hold their initial values.  The host is about
\* to send input; h is the history to begin with.
BootState(store, ring, input, h) ==
    /\ prefs = store
    /\ g_calFactor = NvsGet(store, KEY_CAL_FACTOR, <<1, 1>>)
    /\ g_tareOffset = NvsGet(store, KEY_TARE_OFFSET, 0)
    /\ rb = ring
    /\ rb_g = NewRing(SD_WINDOW)
    /\ first = TRUE
    /\ iir_value = 0
    /\ lastStableRefMs = 0
    /\ stable = FALSE
    /\ last_grams_for_delta = 0
    /\ last_output = 0
    /\ cmdLine = <<>>
    /\ cmdOverflow = FALSE
    /\ pc = "tick"
    /\ clock = SETUP_DELAY_MS
    /\ host = input
    /\ tx = <<Line("HELLO:ESP32-HX711")>>
    /\ ev = [kind |-> "boot"]
    /\ ticks = 0
    /\ hist = h
    /\ added = <<>>

\* setup() has run, the host silent so far.
Boot(store, ring) == BootState(store, ring, <<>>, NoHist)

\* ------------------------------------------------------ RingBufferFloat

\* mean(): the sum of buf[0..count) over count; 0 when empty.
RbMean(r) ==
    IF r.count = 0 THEN 0 ELSE RoundDiv(SumSeq(RbCopy(r)), r.count)

RECURSIVE SumSq(_)
SumSq(s) == IF s = <<>> THEN 0 ELSE Head(s) * Head(s) + SumSq(Tail(s))

\* stddev() <= th, th in tenths of a gram: stddev() is the square root of the
\* mean squared deviation from mean(), 0 when empty.  Squares are compared,
\* and a deviation that alone exceeds th * sqrt(count) decides the
\* comparison before it is squared (TLC's integers are 32 bits).
RbStddevLe(r, th) ==
    IF r.count = 0 THEN TRUE
    ELSE LET mu == RbMean(r)
             d  == [i \in 1..r.count |-> r.buf[i - 1] - mu]
         IN  IF \E i \in 1..r.count : 10 * Abs(d[i]) > th * FRAC * r.count
             THEN FALSE
             ELSE SumSq(d) <= (th * th * r.count * FRAC * FRAC) \div 100

\* ------------------------------------------------------------------ loop()

\* rawToGrams(raw) with the globals g_calFactor and g_tareOffset.
rawToGrams(raw) == Grams(raw, g_calFactor, g_tareOffset)

\* The IIR update seeding the accumulator again at every tick.
IirStep_NoMemory(acc, g) == g

\* The IIR update with the weights exchanged.
IirStep_Swapped(acc, g) ==
    RoundDiv(IIR_ALPHA_PCT * acc + (100 - IIR_ALPHA_PCT) * g, 100)

\* iir_value = (1.0f - IIR_ALPHA) * iir_value + IIR_ALPHA * g.
IirStep(acc, g) ==
    RoundDiv((100 - IIR_ALPHA_PCT) * acc + IIR_ALPHA_PCT * g, 100)

\* cond_delta with a strict comparison.
CondDelta_Strict(grams, ref) == Abs(grams - ref) < STABLE_DELTA_G * FRAC

\* cond_delta = (fabsf(grams - last_grams_for_delta) <= STABLE_DELTA_G).
CondDelta(grams, ref) == Abs(grams - ref) <= STABLE_DELTA_G * FRAC

\* cond_time taken of the reference timestamp, not of its age.
CondTime_OfReference(now, ref) == ref >= STABLE_MS

\* cond_time = ((now - lastStableRefMs) >= STABLE_MS).
CondTime(now, ref) == (now - ref) >= STABLE_MS

\* cond_stddev, the test applied from half the capacity rounded up.
CondStddev_HalfUp(window) ==
    IF 2 * RbSize(window) >= SD_WINDOW
    THEN RbStddevLe(window, SD_THRESH_DG)
    ELSE TRUE

\* cond_stddev: true unless rb_g holds SD_WINDOW / 2 values or more and
\* their stddev() exceeds SD_THRESH_G.
CondStddev(window) ==
    IF RbSize(window) >= SD_WINDOW \div 2
    THEN RbStddevLe(window, SD_THRESH_DG)
    ELSE TRUE

\* The stable flag never cleared.
StableNext_NoClear(ok, timeOk, was) == IF ok /\ timeOk THEN TRUE ELSE was

\* if (cond_delta && cond_stddev) { if (cond_time) stable = true; }
\* else stable = false.
StableNext(ok, timeOk, was) ==
    IF ok THEN (IF timeOk THEN TRUE ELSE was) ELSE FALSE

\* Step 5 without the hold: the smoothed value is always emitted.
Deadband_NoHold(isStable, grams, last) == grams

\* Step 5 holding the output whenever stable, whatever the change.
Deadband_HoldsAll(isStable, grams, last) == IF isStable THEN last ELSE grams

\* Step 5: the value emitted, held at last_output when stable and the
\* change is below DEAD_BAND_G.
Deadband(isStable, grams, last) ==
    IF isStable /\ 100 * Abs(grams - last) < DEAD_BAND_CG * FRAC
    THEN last
    ELSE grams

\* Steps 1 to 6 of loop(): readRaw() returns raw after blocking wait ms.
Loop(raw, wait) ==
    /\ pc = "tick"
    /\ LET now    == clock + wait
           rb1    == RbAdd(rb, raw)
           useIir == RbSize(rb1) >= COLD_START_MIN
           g      == rawToGrams(RbMedian(rb1))
           iir1   == IF ~useIir THEN iir_value
                     ELSE IF first THEN g
                     ELSE IirStep(iir_value, g)
           grams  == IF useIir THEN iir1 ELSE rawToGrams(raw)
           rbg1   == RbAdd(rb_g, grams)
           ok     == CondDelta(grams, last_grams_for_delta) /\ CondStddev(rbg1)
           stable1 == StableNext(ok, CondTime(now, lastStableRefMs), stable)
           out_grams == Deadband(stable1, grams, last_output)
       IN  /\ rb' = rb1
           /\ iir_value' = iir1
           /\ first' = (IF useIir THEN FALSE ELSE first)
           /\ rb_g' = rbg1
           /\ stable' = stable1
           /\ lastStableRefMs' = (IF ok THEN lastStableRefMs ELSE now)
           /\ last_grams_for_delta' =
                  (IF ok THEN last_grams_for_delta ELSE grams)
           /\ tx' = <<[tag |-> "G", grams |-> Fmt2(out_grams),
                       S |-> IF stable1 THEN 1 ELSE 0]>>
           /\ last_output' = out_grams
           /\ clock' = now
           /\ ev' = [kind |-> "tick", raw |-> raw, now |-> now,
                     grams |-> grams, out |-> out_grams,
                     stableBefore |-> stable,
                     refBefore |-> last_grams_for_delta,
                     refMsBefore |-> lastStableRefMs,
                     iirBefore |-> iir_value, firstBefore |-> first,
                     lastOutBefore |-> last_output, sizeBefore |-> RbSize(rb)]
           /\ hist' = [hist EXCEPT
                  !.firstTick = IF hist.firstTick < 0 THEN now ELSE @,
                  !.lastViolation =
                      IF Abs(grams - last_grams_for_delta) <= STABLE_DELTA_G * FRAC
                         /\ CondStddev(rbg1)
                      THEN @ ELSE now]
    /\ pc' = "drain"
    /\ ticks' = ticks + 1
    /\ UNCHANGED <<calVars, cmdVars, host, added>>

\* The parser given a byte that is no terminator, with the length test off
\* by one.
ParserAppend_OffByOne(line, overflow, c) ==
    IF overflow THEN [line |-> line, overflow |-> TRUE]
    ELSE IF Len(line) <= CMD_MAX_LEN
    THEN [line |-> Append(line, c), overflow |-> FALSE]
    ELSE [line |-> line, overflow |-> TRUE]

\* The parser appending every byte, with no limit.
ParserAppend_Unbounded(line, overflow, c) ==
    [line |-> Append(line, c), overflow |-> FALSE]

\* The parser given a byte that is no terminator: appended while the line is
\* shorter than CMD_MAX_LEN, else the line is marked overflowed and the byte
\* dropped, as is every byte after it.
ParserAppend(line, overflow, c) ==
    IF overflow THEN [line |-> line, overflow |-> TRUE]
    ELSE IF Len(line) < CMD_MAX_LEN
    THEN [line |-> Append(line, c), overflow |-> FALSE]
    ELSE [line |-> line, overflow |-> TRUE]

\* Step 7, one pass of the while loop: Serial1.available() is true and
\* Serial1.read() returns c, the host keeping rest to send; a command
\* handler that runs reads the sensor values script[1], script[2], ...
DrainByte(c, rest, script) ==
    /\ pc = "drain"
    /\ LET done == c \in Terminators
           line == Trim(cmdLine)
           call == done /\ ~cmdOverflow /\ Len(line) > 0
           res  == IF call
                   THEN HandleCommand(prefs, g_calFactor, g_tareOffset, line,
                                      script)
                   ELSE [factor |-> g_calFactor, tare |-> g_tareOffset,
                         store |-> prefs,
                         tx |-> IF done /\ cmdOverflow
                                THEN <<Line("ERR:CMDLEN")>> ELSE <<>>,
                         reads |-> 0, delay |-> 0]
       IN  /\ g_calFactor' = res.factor
           /\ g_tareOffset' = res.tare
           /\ prefs' = res.store
           /\ tx' = res.tx
           /\ clock' = clock + res.delay
           /\ cmdLine' = (IF done THEN <<>>
                          ELSE ParserAppend(cmdLine, cmdOverflow, c).line)
           /\ cmdOverflow' = (IF done THEN FALSE
                              ELSE ParserAppend(cmdLine, cmdOverflow, c).overflow)
           /\ ev' = [kind |-> "byte", c |-> c,
                     raw |-> IF done THEN hist.line ELSE <<>>,
                     line |-> IF call THEN line ELSE <<>>,
                     samples |-> SubSeq(script, 1, res.reads),
                     factorBefore |-> g_calFactor,
                     tareBefore |-> g_tareOffset,
                     storeBefore |-> prefs]
           /\ hist' = [hist EXCEPT
                  !.line = IF done THEN <<>> ELSE Append(@, c),
                  !.bytes = IF hist.keep THEN Append(@, c) ELSE @,
                  !.log = IF ~hist.keep \/ ~done THEN @
                          ELSE IF cmdOverflow
                          THEN Append(@, [line |-> CmdLenMark, tick |-> ticks,
                                          began |-> hist.lineTick])
                          ELSE IF call
                          THEN Append(@, [line |-> line, tick |-> ticks,
                                          began |-> hist.lineTick])
                          ELSE @,
                  !.lineTick = IF ~hist.keep \/ done THEN -1
                               ELSE IF @ < 0 THEN ticks ELSE @]
    /\ host' = rest
    /\ UNCHANGED <<pipeVars, pc, ticks, added>>

\* Step 7 ending only between lines: the drain waits for the terminator.
EndLoop_WaitsForLine ==
    /\ pc = "drain"
    /\ cmdLine = <<>> /\ ~cmdOverflow
    /\ pc' = "tick"
    /\ clock' = clock + LOOP_DELAY_MS
    /\ tx' = <<>>
    /\ ev' = [kind |-> "delay"]
    /\ UNCHANGED <<calVars, pipeVars, cmdVars, host, ticks, hist, added>>

\* Step 7 ending with the unfinished line thrown away.
EndLoop_DropsLine ==
    /\ pc = "drain"
    /\ pc' = "tick"
    /\ clock' = clock + LOOP_DELAY_MS
    /\ tx' = <<>>
    /\ ev' = [kind |-> "delay"]
    /\ cmdLine' = <<>>
    /\ cmdOverflow' = FALSE
    /\ UNCHANGED <<calVars, pipeVars, host, ticks, hist, added>>

\* Step 7 ends (Serial1.available() is false) and step 8: delay(20).
EndLoop ==
    /\ pc = "drain"
    /\ pc' = "tick"
    /\ clock' = clock + LOOP_DELAY_MS
    /\ tx' = <<>>
    /\ ev' = [kind |-> "delay"]
    /\ UNCHANGED <<calVars, pipeVars, cmdVars, host, ticks, hist, added>>

\* Power is cycled and setup() runs again: RAM is re-initialised and the
\* calibration is loaded from NVS.  The host drops the rest of its line.
Restart ==
    /\ prefs' = prefs
    /\ g_calFactor' = NvsGet(prefs, KEY_CAL_FACTOR, <<1, 1>>)
    /\ g_tareOffset' = NvsGet(prefs, KEY_TARE_OFFSET, 0)
    /\ rb' = NewRing(MEDIAN_WINDOW)
    /\ rb_g' = NewRing(SD_WINDOW)
    /\ first' = TRUE
    /\ iir_value' = 0
    /\ lastStableRefMs' = 0
    /\ stable' = FALSE
    /\ last_grams_for_delta' = 0
    /\ last_output' = 0
    /\ cmdLine' = <<>>
    /\ cmdOverflow' = FALSE
    /\ pc' = "tick"
    /\ clock' = SETUP_DELAY_MS
    /\ tx' = <<Line("HELLO:ESP32-HX711")>>
    /\ ev' = [kind |-> "restart", factorBefore |-> g_calFactor,
              tareBefore |-> g_tareOffset, pcBefore |-> pc]
    /\ ticks' = 0
    /\ hist' = NoHist
    /\ host' = <<>>
    /\ UNCHANGED added

\* ------------------------------------------- the firmware and its host

\* Bounds of the exploration: executions of loop() per boot, and the
\* value of millis() [ms].
MaxTicks == 1
MaxClock == 500

\* n times the character c.
Pad(n, c) == [i \in 1..n |-> c]

\* The lines the host sends, each ended by "\r" or "\n" (EOL stands for the
\* terminator until it is sent): the two commands in both cases and with
\* blanks around them, weights that are positive, negative, zero, missing and
\* not a number, lines that are no command, empty and blank lines, a Tare
\* padded with blanks to CMD_MAX_LEN characters, and to one more.
Menu ==
    { <<"T">>, <<"t">>, <<" ", "T", " ">>,
      <<"C", ":", "5">>, <<"c", ":", "5">>, <<"C", ":", " ", "5", " ">>,
      <<"C", ":", "-", "5">>, <<"C", ":", "0">>, <<"C", ":">>,
      <<"C", ":", "X">>,
      <<"X">>, <<"C">>, <<"T", "1">>, <<"T", "A", "R", "E">>,
      <<>>, <<" ">>,
      <<"T">> \o Pad(CMD_MAX_LEN - 1, " "), <<"T">> \o Pad(CMD_MAX_LEN, " ") }

EOL == "EOL"
HostLines == {l \o <<EOL>> : l \in Menu}

\* What the sensor returns while a command is handled: CAL_SAMPLES reads
\* of v, the last one of o.
Script(v, o) == [i \in 1..CAL_SAMPLES |-> IF i < CAL_SAMPLES THEN v ELSE o]

\* Sensor values read by loop() and during commands, read latencies [ms].
TickRaws == {0}
Waits == {0}
Raws == {-7, 0}
Scripts == {Script(v, o) : v \in Raws, o \in Raws}

Init == Boot(EmptyNvs, NewRing(MEDIAN_WINDOW))

\* The byte stream the host continues with, or begins when its line is done.
Streams(lines) == IF host = <<>> THEN lines ELSE {host}

Tick ==
    \E raw \in TickRaws, wait \in Waits : ticks < MaxTicks /\ Loop(raw, wait)

\* The bytes the host may send next, and the sensor scripts that matter
\* to the byte's handling.
NextBytes(stream) == IF Head(stream) = EOL THEN Terminators ELSE {Head(stream)}
ScriptsFor(c, scripts) == IF c \in Terminators THEN scripts ELSE {Script(0, 0)}

Receive ==
    \E stream \in Streams(HostLines) :
        \E c \in NextBytes(stream) :
            \E script \in ScriptsFor(c, Scripts) :
                DrainByte(c, Tail(stream), script) /\ clock' <= MaxClock

Next == Tick \/ Receive \/ EndLoop \/ Restart

Spec == Init /\ [][Next]_vars

\* ------------------------------------------- RingBufferRaw on its own

\* Capacities and samples of the ring under test, and the number of add()
\* calls explored.
MaxRing == 5
MaxAdds == 7
MedSamples == {-5, 0, 7}
OddCaps == {n \in 1..MaxRing : n % 2 = 1}

InitMedian == \E n \in OddCaps : Boot(EmptyNvs, NewRing(n))

\* rb.add(v) on the ring under test.
MedianAdd(v) ==
    /\ Len(added) < MaxAdds
    /\ rb' = RbAdd(rb, v)
    /\ added' = Append(added, v)
    /\ ev' = [kind |-> "add", median |-> RbMedian(rb')]
    /\ UNCHANGED <<calVars, rb_g, first, iir_value, lastStableRefMs, stable,
                   last_grams_for_delta, last_output, cmdVars, pc, clock,
                   host, tx, ticks, hist>>

NextMedian == \E v \in MedSamples : MedianAdd(v)

SpecMedian == InitMedian /\ [][NextMedian]_vars

\* The last n elements of s (all of s when it is shorter).
LastN(s, n) ==
    IF Len(s) <= n THEN s ELSE SubSeq(s, Len(s) - n + 1, Len(s))

\* How often x occurs in the sequence s.
Occurs(s, x) == Cardinality({i \in 1..Len(s) : s[i] = x})

\* m is the element at 0-based position k of s sorted ascending.
IsKthOfSorted(s, k, m) ==
    /\ \E i \in 1..Len(s) : s[i] = m
    /\ Cardinality({i \in 1..Len(s) : s[i] < m}) <= k
    /\ Cardinality({i \in 1..Len(s) : s[i] <= m}) > k

\* C10: after any sequence of add() calls on a ring of odd capacity N, the
\* ring holds exactly the min(N, calls) most recent samples (add() evicts the
\* oldest once full), and median() is the element at position count/2 of
\* those samples sorted: the middle one of the last N once N were added.
C10_MedianCorrect ==
    (ev.kind = "add") =>
        LET w == LastN(added, rb.N)
        IN  /\ rb.count = Len(w)
            /\ \A x \in MedSamples : Occurs(RbCopy(rb), x) = Occurs(w, x)
            /\ IsKthOfSorted(w, Len(w) \div 2, ev.median)
            /\ (Len(added) >= rb.N =>
                    IsKthOfSorted(w, rb.N \div 2, RbMedian(rb)))

\* A full ring of capacity 3 that has evicted a sample which would have
\* changed the median.
C10_Witness ==
    /\ ev.kind = "add"
    /\ rb.N = 3
    /\ Len(added) = 5
    /\ added[1] = 7 /\ added[2] = 7
    /\ ev.median = 0

\* ------------------------------------------- properties of the commands

\* The non-terminator bytes of the line that the last step completed.
RawLine == ev.raw

\* A step of the drain that read a line terminator.
LineDone == ev.kind = "byte" /\ ev.c \in Terminators

\* The calibration in RAM and in NVS is what it was before the last step.
CalUntouched ==
    /\ g_calFactor = ev.factorBefore
    /\ g_tareOffset = ev.tareBefore
    /\ prefs = ev.storeBefore

Tags == {tx[i].tag : i \in 1..Len(tx)}
ErrTags == {"ERR:CAL:weight", "ERR:CAL:zero", "ERR:UNKNOWN_CMD", "ERR:CMDLEN"}
DispatchTags ==
    {"ACK:T", "ACK:C", "ERR:CAL:weight", "ERR:CAL:zero", "ERR:UNKNOWN_CMD"}

\* The mean of the samples a Calibrate read, truncated, less the tare.
NetRaw(samples, tare) == TruncDiv(SumSeq(samples), CAL_SAMPLES) - tare

\* C1: a line of more than CMD_MAX_LEN bytes before its terminator is
\* answered with exactly one ERR:CMDLEN, written when the terminator is read
\* (the bytes of a line are answered with nothing); handleCommand is not
\* called for it, so no sensor value is read, the calibration is left as it
\* was and no ACK:*, ERR:UNKNOWN_CMD or ERR:CAL:* is written; the next line
\* starts from an empty buffer.
C1_OverflowRejected ==
    (ev.kind = "byte") =>
        /\ (ev.c \notin Terminators) => (tx = <<>> /\ CalUntouched)
        /\ (ev.c \in Terminators /\ Len(RawLine) > CMD_MAX_LEN) =>
               /\ tx = <<Line("ERR:CMDLEN")>>
               /\ Tags \cap DispatchTags = {}
               /\ ev.line = <<>>
               /\ ev.samples = <<>>
               /\ CalUntouched
               /\ cmdLine = <<>> /\ ~cmdOverflow

\* A line of CMD_MAX_LEN + 1 bytes whose first CMD_MAX_LEN bytes are a Tare
\* command has been answered with ERR:CMDLEN.
C1_Witness ==
    /\ LineDone
    /\ Len(RawLine) = CMD_MAX_LEN + 1
    /\ RawLine[1] = "T"
    /\ tx = <<Line("ERR:CMDLEN")>>

\* The line t is a Calibrate command: it starts with "C:" or "c:".
IsCalLine(t) == Len(t) >= 2 /\ t[1] \in {"C", "c"} /\ t[2] = ":"

\* C9: a terminator is answered with at most one line, written before the
\* next byte is read: ERR:CMDLEN for a line longer than CMD_MAX_LEN; nothing
\* for a line that is empty after trimming; ACK:T for "T" and "t"; one of
\* ACK:C:<factor>, ERR:CAL:weight, ERR:CAL:zero for a line starting with "C:"
\* or "c:"; ERR:UNKNOWN_CMD for every other line ("X", "C", "TARE", "T1").
C9_ResponseMapping ==
    LineDone =>
        LET t == Trim(RawLine)
        IN  /\ Len(tx) <= 1
            /\ IF Len(RawLine) > CMD_MAX_LEN THEN tx = <<Line("ERR:CMDLEN")>>
               ELSE IF t = <<>> THEN tx = <<>>
               ELSE IF t \in {<<"T">>, <<"t">>} THEN tx = <<Line("ACK:T")>>
               ELSE IF IsCalLine(t)
               THEN /\ Len(tx) = 1
                    /\ tx[1].tag \in {"ACK:C", "ERR:CAL:weight", "ERR:CAL:zero"}
                    /\ (tx[1].tag = "ACK:C") =>
                           tx[1].val = Fmt8(g_calFactor)
               ELSE tx = <<Line("ERR:UNKNOWN_CMD")>>
            /\ (RawLine \in {<<"X">>, <<"C">>, <<"T", "A", "R", "E">>,
                             <<"T", "1">>}) =>
                   tx = <<Line("ERR:UNKNOWN_CMD")>>

\* The line "t" has been acknowledged as a Tare.
C9_Witness ==
    /\ LineDone
    /\ RawLine = <<"t">>
    /\ tx = <<Line("ACK:T")>>

\* Lines of the menu that carry no weight above zero, and lines that carry
\* the weight 5.
BadWeightLines ==
    { <<"C", ":", "-", "5">>, <<"C", ":", "0">>, <<"C", ":">>,
      <<"C", ":", "X">> }
Weight5Lines ==
    { <<"C", ":", "5">>, <<"c", ":", "5">>, <<"C", ":", " ", "5", " ">> }

\* C4: when the answer to a completed line is an error, calFactor, tareOffset
\* and both values in NVS are what they were before the line, and loop()
\* goes on (to the end of the drain and the next tick).  A weight that is
\* missing, not a number, zero or negative is answered with ERR:CAL:weight
\* before any sample is read; ERR:CAL:zero is the answer exactly to a
\* truncated mean of 20 samples equal to the tare.  calFactor changes only
\* in a step that read 20 samples whose truncated mean less the tare is not 0.
C4_ErrorsKeepCalibration ==
    LineDone =>
        /\ (Tags \cap ErrTags # {}) => (CalUntouched /\ pc = "drain")
        /\ (Len(RawLine) <= CMD_MAX_LEN /\ Trim(RawLine) \in BadWeightLines) =>
               (tx = <<Line("ERR:CAL:weight")>> /\ ev.samples = <<>>)
        /\ ("ERR:CAL:zero" \in Tags) =>
               /\ Len(ev.samples) = CAL_SAMPLES
               /\ NetRaw(ev.samples, ev.tareBefore) = 0
        /\ (g_calFactor # ev.factorBefore) =>
               /\ Len(ev.samples) = CAL_SAMPLES
               /\ NetRaw(ev.samples, ev.tareBefore) # 0

\* A calibrated scale with a tare other than 0 has answered ERR:CAL:zero and
\* kept both.
C4_Witness ==
    /\ LineDone
    /\ tx = <<Line("ERR:CAL:zero")>>
    /\ g_calFactor # <<1, 1>>
    /\ KEY_CAL_FACTOR \in DOMAIN prefs
    /\ g_tareOffset # 0

\* C5: a line "C:<weight>" or "c:<weight>" of weight W > 0 reads exactly 20
\* raw samples; netRaw is their sum divided by 20, truncated towards zero,
\* less tareOffset; when netRaw is not 0, calFactor becomes W / netRaw, is
\* written to NVS and answered as ACK:C:<calFactor> with eight decimals;
\* tareOffset is not changed in RAM or NVS.
C5_CalibrateResult ==
    (LineDone /\ Len(RawLine) <= CMD_MAX_LEN /\ Trim(RawLine) \in Weight5Lines) =>
        LET netRaw == NetRaw(ev.samples, ev.tareBefore)
        IN  /\ Len(ev.samples) = CAL_SAMPLES
            /\ g_tareOffset = ev.tareBefore
            /\ NvsGet(prefs, KEY_TARE_OFFSET, 0) =
                   NvsGet(ev.storeBefore, KEY_TARE_OFFSET, 0)
            /\ (netRaw # 0) =>
                   /\ g_calFactor[2] > 0
                   /\ g_calFactor[1] * netRaw = 5 * g_calFactor[2]
                   /\ KEY_CAL_FACTOR \in DOMAIN prefs
                   /\ prefs[KEY_CAL_FACTOR] = g_calFactor
                   /\ tx = <<[tag |-> "ACK:C", val |-> Fmt8(g_calFactor)]>>

\* "C:5" with tare -7 and samples 0 (19 times) and -7: the sum -7 truncates
\* to the mean 0, netRaw is 7 and the factor 5/7 is acknowledged.
C5_Witness ==
    /\ LineDone
    /\ RawLine = <<"C", ":", "5">>
    /\ ev.tareBefore = -7
    /\ SumSeq(ev.samples) = -7
    /\ g_calFactor = <<5, 7>>
    /\ tx = <<[tag |-> "ACK:C", val |-> Fmt8(<<5, 7>>)]>>

\* C7: a line that is "T" or "t" after trimming reads exactly one raw sample,
\* which becomes tareOffset as it is, in RAM and in NVS, and is answered with
\* ACK:T whatever the sample; calFactor is not changed in RAM or NVS.
C7_TareResult ==
    (LineDone /\ ev.line \in {<<"T">>, <<"t">>}) =>
        /\ Len(ev.samples) = 1
        /\ g_tareOffset = ev.samples[1]
        /\ KEY_TARE_OFFSET \in DOMAIN prefs
        /\ prefs[KEY_TARE_OFFSET] = ev.samples[1]
        /\ tx = <<Line("ACK:T")>>
        /\ g_calFactor = ev.factorBefore
        /\ NvsGet(prefs, KEY_CAL_FACTOR, <<1, 1>>) =
               NvsGet(ev.storeBefore, KEY_CAL_FACTOR, <<1, 1>>)

\* A Tare, padded with blanks, on a scale whose tare was 0 and whose sensor
\* reads -7: the tare is -7.
C7_Witness ==
    /\ LineDone
    /\ RawLine = <<" ", "T", " ">>
    /\ ev.tareBefore = 0
    /\ ev.samples = <<-7>>
    /\ g_tareOffset = -7
    /\ g_calFactor # <<1, 1>>

\* C8: between the steps of the program (no command handler is executing)
\* the factor in NVS is calFactor and the tare in NVS is tareOffset, 1.0 and
\* 0 standing for a value never written; a restart finds the calibration
\* that was in effect.
C8_PersistenceConsistent ==
    /\ NvsGet(prefs, KEY_CAL_FACTOR, <<1, 1>>) = g_calFactor
    /\ NvsGet(prefs, KEY_TARE_OFFSET, 0) = g_tareOffset
    /\ (prefs = EmptyNvs) => (g_calFactor = <<1, 1>> /\ g_tareOffset = 0)
    /\ (ev.kind = "restart") =>
           (g_calFactor = ev.factorBefore /\ g_tareOffset = ev.tareBefore)

\* A restart at a tick boundary of a scale calibrated to 5/7 with tare -7.
C8_Witness ==
    /\ ev.kind = "restart"
    /\ ev.pcBefore = "tick"
    /\ g_calFactor = <<5, 7>>
    /\ g_tareOffset = -7

\* ------------------------------------------- the stability detector

\* loop() running with no command arriving.  Bound: executions of loop().
\* The sensor reads -3, 3 or 72; between two steps pass 0, 600 or 1500 ms (the
\* sensor's latency, or commands handled in the drain before).
MaxStabTicks == 5
StabRaws == {-3, 3, 72}
StabWaits == {0, 600, 1500}

TickStab ==
    \E raw \in StabRaws, wait \in StabWaits :
        ticks < MaxStabTicks /\ Loop(raw, wait)

NextStab == TickStab \/ EndLoop

SpecStab == Init /\ [][NextStab]_vars

\* The delta condition of the last tick, from the values it found.
DeltaHeld == Abs(ev.grams - ev.refBefore) <= STABLE_DELTA_G * FRAC

\* The report of the last tick carries S:1.
ReportsStable == ev.kind = "tick" /\ tx[1].S = 1

\* C2: on a tick that found stable true and on which the delta condition
\* (|grams - reference| <= STABLE_DELTA_G) and the stddev condition both
\* hold, stable stays true and the reference value and timestamp stay as
\* they were; on a tick on which either condition is violated, stable is
\* false afterwards, the reference value is the tick's smoothed grams and
\* the reference timestamp the tick's time.  The report carries the flag.
C2_StickyReset ==
    (ev.kind = "tick") =>
        LET held == DeltaHeld /\ CondStddev(rb_g)
        IN  /\ (ev.stableBefore /\ held) =>
                   /\ stable
                   /\ last_grams_for_delta = ev.refBefore
                   /\ lastStableRefMs = ev.refMsBefore
            /\ (~held) =>
                   /\ ~stable
                   /\ last_grams_for_delta = ev.grams
                   /\ lastStableRefMs = ev.now
            /\ tx[1].S = (IF stable THEN 1 ELSE 0)

\* A tick that found stable true and cleared it for the stddev condition
\* alone, the delta condition holding (grams went from -3.0 to 3.0 against
\* the reference 0.0).
C2_Witness ==
    /\ ev.kind = "tick"
    /\ ev.stableBefore
    /\ DeltaHeld
    /\ ~CondStddev(rb_g)
    /\ ~stable
    /\ lastStableRefMs = ev.now

\* C3: a report carries S:1 only when the condition has held for at least
\* STABLE_MS: since the tick that last violated it or, when no tick has
\* violated it since startup, since the first tick, the first time the
\* condition was evaluated.
C3_HoldBeforeStable ==
    ReportsStable =>
        ev.now - (IF hist.lastViolation >= 0 THEN hist.lastViolation
                  ELSE hist.firstTick) >= STABLE_MS

\* ------------------------------------------- the calibrate scenario

\* Boot on an empty NVS, the sensor reads 1000 at every read, the host sends
\* lines "C:500" and "T".
\* Bounds: executions of loop(), and the value of millis() [ms].
MaxScenTicks == 5
MaxScenClock == 700
ScenRaws == {1000}
ScenLines == {<<"C", ":", "5", "0", "0", EOL>>, <<"T", EOL>>}

TickScen ==
    \E raw \in ScenRaws, wait \in Waits :
        ticks < MaxScenTicks /\ Loop(raw, wait)

ReceiveScen ==
    \E stream \in Streams(ScenLines) :
        \E c \in NextBytes(stream) :
            \E script \in ScriptsFor(c, {Script(v, v) : v \in ScenRaws}) :
                DrainByte(c, Tail(stream), script) /\ clock' <= MaxScenClock

NextScen == TickScen \/ ReceiveScen \/ EndLoop

SpecScenario == Init /\ [][NextScen]_vars

\* C6: once "C:500" has been acknowledged (the factor is 1/2, the tare 0),
\* every tick reads 1000 and reports G:500.00.
C6_ReportsAfterCalibration ==
    (ev.kind = "tick" /\ g_calFactor = <<1, 2>> /\ g_tareOffset = 0) =>
        tx[1].grams = 500 * 100

\* ------------------------------------------- a load left on the scale

\* loop() running with no command arriving; the sensor reads 0 or 10 on the
\* first PrefixTicks ticks and repeats its last value from then on; each
\* read returns at once or after 80 ms (the HX711 at 10 samples per second).
\* Bound: executions of loop().
MaxSettleTicks == 110
PrefixTicks == 4
SettleRaws == {0, 10}
SettleWaits == {80}

\* The sample most recently given to the raw window.
LastRaw == rb.buf[(rb.idx + rb.N - 1) % rb.N]

TickSettle ==
    \E raw \in (IF ticks < PrefixTicks THEN SettleRaws ELSE {LastRaw}) :
        \E wait \in SettleWaits :
            ticks < MaxSettleTicks /\ Loop(raw, wait)

NextSettle == TickSettle \/ EndLoop

\* loop() is entered and runs its steps 1 to 6, up to max times: of the
\* steps of the program, those of Loop and no others.
LoopRuns(max) == pc = "tick" /\ ticks < max /\ pc' = "drain"

\* loop() is executed again and again, and the sensor answers every read.
SpecSettle ==
    /\ Init /\ [][NextSettle]_vars
    /\ WF_pc(LoopRuns(MaxSettleTicks)) /\ WF_vars(EndLoop)

\* The smoothed value of the last tick is within the deadband of the value
\* emitted before it: |grams - last_output| < DEAD_BAND_G.
InBand == 100 * Abs(ev.grams - ev.lastOutBefore) < DEAD_BAND_CG * FRAC

\* C11: on a tick after which stable is true and whose smoothed grams is
\* within DEAD_BAND_G (strictly) of the last emitted value, the emitted
\* value is that last emitted value again, in the report too, and
\* lastEmittedGrams (last_output) does not change; so it is the same on
\* every tick of a run of such ticks.
C11_DeadbandHolds ==
    (ev.kind = "tick" /\ stable /\ InBand) =>
        /\ ev.out = ev.lastOutBefore
        /\ last_output = ev.lastOutBefore
        /\ tx[1].grams = Fmt2(ev.lastOutBefore)

\* A tick that held the output although the smoothed value had moved.
C11_Witness ==
    /\ ev.kind = "tick"
    /\ stable
    /\ InBand
    /\ ev.grams # ev.lastOutBefore
    /\ last_output = ev.lastOutBefore

\* ------------------------------------------- a finite input

\* The host sends one of Inputs and nothing more; loop() runs while the
\* bytes arrive, any number of them between two executions.  Bound:
\* executions of loop().
MaxInputTicks == 2
LongLine == Pad(CMD_MAX_LEN + 2, "x")
Inputs ==
    { <<"T", EOL, "C", ":", "5", EOL>>,
      <<"C", ":", "5", EOL, "\r", " ", "t", " ", EOL, "X">>,
      LongLine,
      <<"T">> \o Pad(CMD_MAX_LEN, " ") \o <<EOL, "t", EOL>> }

InitInput ==
    \E input \in Inputs :
        BootState(EmptyNvs, NewRing(MEDIAN_WINDOW), input,
                  [NoHist EXCEPT !.keep = TRUE])

TickInput ==
    \E raw \in TickRaws, wait \in Waits :
        ticks < MaxInputTicks /\ Loop(raw, wait)

ReceiveInput ==
    /\ host # <<>>
    /\ \E c \in NextBytes(host) :
           \E script \in ScriptsFor(c, {Script(v, v) : v \in Raws}) :
               DrainByte(c, Tail(host), script)

NextInput == TickInput \/ ReceiveInput \/ EndLoop

\* loop() is executed again and again, and the sensor answers every read.
SpecInput ==
    /\ InitInput /\ [][NextInput]_vars
    /\ WF_pc(LoopRuns(MaxInputTicks)) /\ WF_vars(EndLoop)

\* The lines of the last step that are reports G:<grams>,S:<0|1>.
Reports == {i \in 1..Len(tx) : tx[i].tag = "G"}

\* C12: an execution of loop() writes exactly one report G:<grams>,S:<0|1>,
\* S being 1 exactly when stable is true, in steps 1 to 6, which consume no
\* inbound byte and leave the parser as it is; the drain and the delay write
\* no report.  Whatever the finite input, a line of more than CMD_MAX_LEN
\* bytes and no terminator included, the drain ends, and while loop() is
\* executed the next report is written.
C12_SamplingNeverStalls ==
    /\ []((ev.kind = "tick") =>
              /\ Len(tx) = 1
              /\ Reports = {1}
              /\ tx[1].S = (IF stable THEN 1 ELSE 0)
              /\ tx[1].grams = Fmt2(last_output))
    /\ []((ev.kind \in {"byte", "delay"}) => Reports = {})
    /\ [][(pc = "tick" /\ pc' = "drain") =>
              (host' = host /\ hist'.bytes = hist.bytes /\ UNCHANGED cmdVars)]_vars
    /\ (pc = "drain") ~> (pc = "tick")
    /\ \A k \in 0..(MaxInputTicks - 1) :
           (ticks = k) ~> (ticks = k + 1 /\ ev.kind = "tick" /\ Reports = {1})

\* The second report has been written while a line of more than CMD_MAX_LEN
\* bytes is waiting for its terminator.
C12_Witness ==
    /\ ev.kind = "tick"
    /\ ticks = 2
    /\ cmdOverflow
    /\ hist.bytes = LongLine
    /\ Reports = {1}

\* ------------------------------------------- the line buffer

\* C13: cmdLine never holds more than CMD_MAX_LEN characters: it holds the
\* bytes received since the last terminator, the first CMD_MAX_LEN of them
\* when there are more; cmdOverflow is true exactly when more than
\* CMD_MAX_LEN bytes were received since the last terminator, so a line of
\* exactly CMD_MAX_LEN bytes is given to handleCommand; after a terminator
\* the buffer is empty and the flag false, whatever the line was.
C13_LineBufferBound ==
    /\ Len(cmdLine) <= CMD_MAX_LEN
    /\ cmdOverflow <=> (Len(hist.line) > CMD_MAX_LEN)
    /\ cmdLine = (IF Len(hist.line) <= CMD_MAX_LEN THEN hist.line
                  ELSE SubSeq(hist.line, 1, CMD_MAX_LEN))
    /\ LineDone => (cmdLine = <<>> /\ ~cmdOverflow)
    /\ (LineDone /\ Len(RawLine) = CMD_MAX_LEN) =>
           /\ ev.line = Trim(RawLine)
           /\ ev.line # <<>>
           /\ "ERR:CMDLEN" \notin Tags

\* A Tare padded to exactly CMD_MAX_LEN bytes has been acknowledged.
C13_Witness ==
    /\ LineDone
    /\ Len(RawLine) = CMD_MAX_LEN
    /\ ev.line = <<"T">>
    /\ tx = <<Line("ACK:T")>>
    /\ cmdLine = <<>>

\* ------------------------------------------- the stddev gate

\* The last tick left the stability reference as it was, stable decided by
\* the time test; or it cleared stable and moved the reference to itself.
NoReset ==
    /\ last_grams_for_delta = ev.refBefore
    /\ lastStableRefMs = ev.refMsBefore
    /\ stable <=> (ev.stableBefore \/ ev.now - ev.refMsBefore >= STABLE_MS)
WasReset ==
    /\ last_grams_for_delta = ev.grams
    /\ lastStableRefMs = ev.now
    /\ ~stable

\* The stddev of the smoothed-grams window is at most SD_THRESH_G.
StdWithin == RbStddevLe(rb_g, SD_THRESH_DG)

\* C14 as stated: on a tick whose smoothed-grams window (the tick's value
\* included) holds fewer than half its capacity, stdOk is true: stability is
\* decided by the delta and time tests alone.
C14_GateAtHalf ==
    (ev.kind = "tick" /\ 2 * RbSize(rb_g) < SD_WINDOW) =>
        /\ DeltaHeld => NoReset
        /\ ~DeltaHeld => WasReset

\* C14: the stddev test is applied on a tick exactly when the smoothed-grams
\* window (the tick's value included) holds at least SD_WINDOW / 2 values,
\* the quotient of the integer division: with fewer, stability is decided
\* by the delta and time tests alone; from there on, a stddev above
\* SD_THRESH_G is a violation whatever the delta.
C14_GateAtFloorHalf ==
    (ev.kind = "tick") =>
        IF RbSize(rb_g) < SD_WINDOW \div 2
        THEN /\ DeltaHeld => NoReset
             /\ ~DeltaHeld => WasReset
        ELSE /\ (DeltaHeld /\ StdWithin) => NoReset
             /\ (~DeltaHeld \/ ~StdWithin) => WasReset

\* A window holding one value less than the test needs, of a stddev above
\* the threshold (-3.0 and 3.0): the tick kept stable true.
C14_Witness ==
    /\ ev.kind = "tick"
    /\ RbSize(rb_g) = SD_WINDOW \div 2 - 1
    /\ ~StdWithin
    /\ DeltaHeld
    /\ ev.stableBefore
    /\ stable

\* ------------------------------------------- cold start and IIR seeding

\* The median of the raw window after the last tick, in grams.
MedianGrams == rawToGrams(RbMedian(rb))

\* C15: on the ticks that leave fewer than COLD_START_MIN samples in the raw
\* window (the first two after startup) grams is rawToGrams of the tick's
\* sample and the accumulator and its first flag are left alone; the first
\* tick with COLD_START_MIN samples (the third) sets the accumulator to
\* rawToGrams(median) exactly; every later tick leaves
\* (1 - alpha) * acc + alpha * rawToGrams(median), to the rounding of the
\* last digit, and never seeds again.
C15_ColdStartSeeding ==
    (ev.kind = "tick") =>
        /\ (RbSize(rb) < COLD_START_MIN) <=> (ticks < COLD_START_MIN)
        /\ (RbSize(rb) < COLD_START_MIN) =>
              /\ ev.grams = rawToGrams(ev.raw)
              /\ iir_value = ev.iirBefore
              /\ ev.firstBefore /\ first
        /\ (RbSize(rb) >= COLD_START_MIN /\ ev.firstBefore) =>
              /\ ticks = COLD_START_MIN
              /\ iir_value = MedianGrams
              /\ ev.grams = MedianGrams
              /\ ~first
        /\ (RbSize(rb) >= COLD_START_MIN /\ ~ev.firstBefore) =>
              /\ ticks > COLD_START_MIN
              /\ 2 * Abs(100 * iir_value
                         - ((100 - IIR_ALPHA_PCT) * ev.iirBefore
                            + IIR_ALPHA_PCT * MedianGrams)) <= 100
              /\ ev.grams = iir_value
              /\ ~first

\* A tick after the seeding blended an accumulator and a median that differ:
\* the accumulator moved, and not all the way to the median.
C15_Witness ==
    /\ ev.kind = "tick"
    /\ ticks > COLD_START_MIN
    /\ ~ev.firstBefore
    /\ ev.iirBefore # MedianGrams
    /\ iir_value # ev.iirBefore
    /\ iir_value # MedianGrams

\* ------------------------------------------- the deadband output rule

\* C16: on every tick, when stable is false, or the smoothed value is not
\* within DEAD_BAND_G of the last emitted one, the report carries the
\* smoothed value, which becomes last_output; on every tick the emitted
\* value is less than DEAD_BAND_G from the smoothed one; a report with S:0
\* carries the smoothed value.
C16_DeadbandOutput ==
    (ev.kind = "tick") =>
        /\ (~stable \/ ~InBand) =>
              /\ ev.out = ev.grams
              /\ last_output = ev.grams
              /\ tx[1].grams = Fmt2(ev.grams)
        /\ 100 * Abs(ev.out - ev.grams) < DEAD_BAND_CG * FRAC
        /\ last_output = ev.out
        /\ (tx[1].S = 0) => (tx[1].grams = Fmt2(ev.grams))

\* A stable tick whose smoothed value left the band of the last emitted
\* value: the report moved to it, still with S:1.
C16_Witness ==
    /\ ev.kind = "tick"
    /\ stable
    /\ ~InBand
    /\ tx = <<[tag |-> "G", grams |-> Fmt2(ev.grams), S |-> 1]>>
    /\ Fmt2(ev.grams) # Fmt2(ev.lastOutBefore)

\* ------------------------------------------- who changes the calibration

IsTareLine(line) == line = <<"T">> \/ line = <<"t">>

\* Store new differs from store old in key at most.
OnlyKey(old, new, key) ==
    /\ DOMAIN new = (DOMAIN old) \cup {key}
    /\ \A k \in (DOMAIN old) \ {key} : new[k] = old[k]

\* C17: a step that changes calFactor, tareOffset or the NVS is the
\* dispatch of a Tare or a Calibrate line, at the line's terminator: never
\* a tick of the pipeline, a byte of a line, the end of loop() or another
\* command.  Tare leaves calFactor and the NVS key of the factor as they
\* were; Calibrate leaves tareOffset and the NVS key of the tare.
C17_CalibrationMutators ==
    [][ /\ (pc = "tick" /\ pc' = "drain") => UNCHANGED calVars
        /\ (calVars' # calVars) =>
              /\ ev'.kind = "byte"
              /\ ev'.c \in Terminators
              /\ \/ /\ IsTareLine(ev'.line)
                    /\ g_calFactor' = g_calFactor
                    /\ OnlyKey(prefs, prefs', KEY_TARE_OFFSET)
                 \/ /\ IsCalLine(ev'.line)
                    /\ g_tareOffset' = g_tareOffset
                    /\ OnlyKey(prefs, prefs', KEY_CAL_FACTOR)
      ]_vars

\* A Calibrate dispatched on a tare other than 0 changed the factor; the
\* tare in RAM and in NVS is the one from before.
C17_Witness ==
    /\ LineDone
    /\ IsCalLine(ev.line)
    /\ g_calFactor # ev.factorBefore
    /\ g_tareOffset # 0
    /\ g_tareOffset = ev.tareBefore
    /\ KEY_TARE_OFFSET \in DOMAIN ev.storeBefore
    /\ prefs[KEY_TARE_OFFSET] = ev.storeBefore[KEY_TARE_OFFSET]

\* ------------------------------------------- framing independence

\* What a whole line is answered with, from its bytes alone: the ERR:CMDLEN
\* mark when it is longer than CMD_MAX_LEN, the trimmed line given to
\* handleCommand when that is not empty, nothing otherwise.
LineOutcome(seg) ==
    IF Len(seg) > CMD_MAX_LEN THEN <<CmdLenMark>>
    ELSE IF Trim(seg) # <<>> THEN <<Trim(seg)>>
    ELSE <<>>

\* The positions of the terminators of a byte sequence, and the bytes
\* between the terminator at position e and the one before it.
Ends(bytes) == {i \in 1..Len(bytes) : bytes[i] \in Terminators}
LineBefore(bytes, e) ==
    LET before == {i \in Ends(bytes) : i < e}
        from == IF before = {} THEN 1
                ELSE (CHOOSE i \in before : \A j \in before : j <= i) + 1
    IN  SubSeq(bytes, from, e - 1)

\* The outcomes of the lines of a byte sequence, in order.
LinesOf(bytes) ==
    LET kept == {e \in Ends(bytes) : LineOutcome(LineBefore(bytes, e)) # <<>>}
        nth(k) == CHOOSE e \in kept : Cardinality({j \in kept : j < e}) = k - 1
    IN  [k \in 1..Cardinality(kept) |-> LineOutcome(LineBefore(bytes, nth(k)))[1]]

\* The lines dispatched and the ERR:CMDLEN written since boot, in order.
Dispatched == [i \in 1..Len(hist.log) |-> hist.log[i].line]

\* C18: whatever the ticks at which the bytes were consumed, the lines
\* given to handleCommand and the ERR:CMDLEN written so far are those of
\* the byte sequence consumed so far, cut at its terminators; each was
\* dispatched once, in the execution of loop() that read its terminator,
\* also when its first byte was read in an earlier one.
C18_FramingIndependence ==
    /\ Dispatched = LinesOf(hist.bytes)
    /\ \A i \in 1..Len(hist.log) :
           /\ hist.log[i].began <= hist.log[i].tick
           /\ hist.log[i].tick <= ticks
           /\ \A j \in 1..Len(hist.log) : i < j => hist.log[i].tick <= hist.log[j].tick
    /\ (LineDone /\ (ev.line # <<>> \/ Tags = {"ERR:CMDLEN"})) =>
           /\ hist.log # <<>>
           /\ hist.log[Len(hist.log)].tick = ticks
           /\ hist.log[Len(hist.log)].line \in {ev.line, CmdLenMark}

\* The line C:5 was dispatched by the second execution of loop(), its first
\* bytes having been read by the first.
C18_Witness ==
    /\ LineDone
    /\ ev.line = <<"C", ":", "5">>
    /\ hist.log # <<>>
    /\ hist.log[Len(hist.log)].line = <<"C", ":", "5">>
    /\ hist.log[Len(hist.log)].began = 1
    /\ hist.log[Len(hist.log)].tick = 2

\* ------------------------------------------- commands and the pipeline

\* C19: the step of the drain, a command dispatched included, leaves the
\* raw window, the smoothed-grams window, the accumulator and its first
\* flag, stable, the stability reference and its timestamp and last_output
\* as they were; the accumulator is seeded once, so the tick after a command
\* that changed the calibration computes (1 - alpha) * acc + alpha * g from
\* the accumulator of the tick before and the median converted with the new
\* calibration.
C19_CommandsLeavePipeline ==
    [][ /\ (pc = "drain" /\ pc' = "drain") => UNCHANGED pipeVars
        /\ ~first => ~first'
        /\ (pc = "tick" /\ pc' = "drain" /\ ~first) =>
              /\ 2 * Abs(100 * iir_value'
                         - ((100 - IIR_ALPHA_PCT) * iir_value
                            + IIR_ALPHA_PCT * MedianGrams')) <= 100
              /\ ev'.grams = iir_value'
      ]_vars

\* The tick after "C:500" was acknowledged, with 1000 on the sensor: the
\* accumulator held 1000.0 (factor 1) and the median is now 500.0 (factor
\* 1/2); the tick left 960.0.
C19_Witness ==
    /\ ev.kind = "tick"
    /\ g_calFactor = <<1, 2>>
    /\ ev.iirBefore = 1000 * FRAC
    /\ MedianGrams = 500 * FRAC
    /\ iir_value = 960 * FRAC

\* ------------------------------------------- settling

\* The pipeline is at rest on the sample it keeps reading: both windows are
\* full of one value, the accumulator is a fixed point of the IIR update for
\* that sample, stable is true and the value is within STABLE_DELTA_G of the
\* reference and within the deadband of (or equal to) the emitted value.
AtRest ==
    /\ RbSize(rb) = rb.N
    /\ \A i \in 0..(rb.N - 1) : rb.buf[i] = LastRaw
    /\ ~first
    /\ IirStep(iir_value, rawToGrams(LastRaw)) = iir_value
    /\ RbSize(rb_g) = rb_g.N
    /\ \A i \in 0..(rb_g.N - 1) : rb_g.buf[i] = iir_value
    /\ stable
    /\ CondDelta(iir_value, last_grams_for_delta)
    /\ Deadband(TRUE, iir_value, last_output) = last_output

\* C20: when, after its first PrefixTicks values, the sensor returns the same
\* value at every read, no command arrives and loop() keeps running, the
\* pipeline comes to rest and stays there; from then on every tick reports
\* S:1 with the grams of the tick before, and changes neither the
\* accumulator, nor stable, nor the stability reference, nor last_output.
C20_SettlingLiveness ==
    /\ <>[]AtRest
    /\ [][(AtRest /\ pc = "tick" /\ pc' = "drain") =>
              /\ AtRest'
              /\ tx' = <<[tag |-> "G", grams |-> Fmt2(last_output), S |-> 1]>>
              /\ UNCHANGED <<iir_value, stable, last_output,
                             last_grams_for_delta, lastStableRefMs>>]_vars

\* The sensor went from 0 to 10 and stayed there; the pipeline is at rest,
\* reporting S:1 and an emitted value that the deadband holds off the
\* accumulator, with executions of loop() still to come.
C20_Witness ==
    /\ AtRest
    /\ ev.kind = "tick"
    /\ ticks < MaxSettleTicks
    /\ LastRaw = 10
    /\ hist.lastViolation > 0
    /\ last_output # iir_value
    /\ tx = <<[tag |-> "G", grams |-> Fmt2(last_output), S |-> 1]>>

=============================================================================
